---- MODULE Spec2Model ----
(***************************************************************************)
(* Model of src/src/app.js: the POST /jobs/:job_id/pay handler with its    *)
(* payForJob helper, and the POST /balances/deposit/:userId handler.       *)
(* Requests run concurrently; every await that touches the shared storage  *)
(* (Profile balances, Job.paid) is one step of a request.                  *)
(***************************************************************************)
EXTENDS Integers, FiniteSets, Sequences, Bags, TLC

(* ---------------- bounds ---------------- *)
MaxReqs == 2
MaxAmount == 2

(* ---------------- stored data (fixture rows) ---------------- *)
Profiles == {1, 2, 3}
Contracts == {1, 2, 3}
Jobs == {1, 2, 3}
\* job ids a request may name: the existing ones and one with no row
JobIds == Jobs \cup {0}
\* contract ids a request may name
ContractIds == Contracts \cup {0}

ProfileType == [p \in Profiles |-> IF p = 2 THEN "contractor" ELSE "client"]
\* contracts 1 and 3 belong to client 1, contract 2 to client 3;
\* contract 3 has no jobs
ClientId == [c \in Contracts |-> IF c = 2 THEN 3 ELSE 1]
ContractorId == [c \in Contracts |-> 2]
ContractId == [j \in Jobs |-> IF j = 3 THEN 2 ELSE 1]
price == [j \in Jobs |-> IF j = 3 THEN 4 ELSE 2]
Statuses == {"new", "in_progress", "terminated"}
InitialBalances == {0, 3}

\* req.body of a deposit: amount may be absent
Bodies == [given : {TRUE}, amount : (0 - 1)..MaxAmount] \cup {[given |-> FALSE, amount |-> 0]}

VARIABLES balance, paid, paymentDate, status, reqs

vars == <<balance, paid, paymentDate, status, reqs>>

Idle == [op |-> "none", actor |-> 0, jobId |-> 0, given |-> FALSE, amount |-> 0,
         pc |-> "idle", res |-> "none", helper |-> "none",
         jobPaid |-> FALSE, id |-> 0, body |-> 0, totalAmountJobs |-> 0,
         dClient |-> 0, dContractor |-> 0, setPaid |-> FALSE]

Init ==
    /\ balance \in [Profiles -> InitialBalances]
    /\ balance[3] = 0
    /\ paid \in [Jobs -> BOOLEAN]
    /\ paid[2] = FALSE /\ paid[3] = FALSE
    /\ status \in [Contracts -> Statuses]
    /\ status[2] = "terminated" /\ status[3] = "in_progress"
    \* a job can only have been paid once its contract was in progress
    /\ paid[1] => status[1] # "new"
    /\ paymentDate = [j \in Jobs |-> paid[j]]
    /\ reqs = EmptyBag

(* ---------------- conditions of the pay handler ---------------- *)
\* the client test written with === in place of !==
NotAuthorized_ClientEq(c, profileId) == ContractorId[c] # profileId /\ ClientId[c] = profileId

\* app.js 97-100
NotAuthorized(c, profileId) == ContractorId[c] # profileId /\ ClientId[c] # profileId

\* only terminated contracts are refused
NotInProgress_OnlyTerminated(st) == st = "terminated"

\* app.js 102
NotInProgress(st) == st # "in_progress"

\* the paid test left out
AlreadyPaid_Never(jobPaid) == FALSE

\* app.js 104
AlreadyPaid(jobPaid) == jobPaid

\* app.js 106
NotEnough(jobPrice, contractorBalance) == jobPrice > contractorBalance

\* Model.increment / Model.decrement: UPDATE ... SET balance = balance +/- by
IncrementBy(bal, by) == bal + by

\* decrement called without "by": Sequelize then subtracts 1
DecrementBy_Default(bal, by) == bal - 1

DecrementBy(bal, by) == bal - by

\* the requests received so far (running or answered), as a multiset
Received == BagToSet(reqs)

CanReceive == BagCardinality(reqs) < MaxReqs

Accept(new) == reqs' = reqs (+) SetToBag({new})

Step(old, new) == reqs' = (reqs (-) SetToBag({old})) (+) SetToBag({new})

(* POST /jobs/:job_id/pay, lines 90-104: findByPk, getContract, the checks *)
PayFindJob(profileId, job_id) ==
    /\ CanReceive
    /\ LET base == [Idle EXCEPT !.op = "pay", !.actor = profileId, !.jobId = job_id]
       IN  IF job_id \notin Jobs
           THEN \* job is null: job.getContract() throws, no response is sent
                Accept([base EXCEPT !.pc = "crashed"])
           ELSE LET c == ContractId[job_id]
                    snap == [base EXCEPT !.jobPaid = paid[job_id]]
                IN  IF NotAuthorized(c, profileId)
                    THEN Accept([snap EXCEPT !.pc = "done", !.res = "unauthorized"])
                    ELSE IF NotInProgress(status[c])
                    THEN Accept([snap EXCEPT !.pc = "done", !.res = "not_in_progress"])
                    ELSE IF AlreadyPaid(snap.jobPaid)
                    THEN Accept([snap EXCEPT !.pc = "done", !.res = "already_paid"])
                    ELSE Accept([snap EXCEPT !.pc = "getContractor"])
    /\ UNCHANGED <<balance, paid, paymentDate, status>>

(* lines 105-114: getContractor, balance check, getClient; payForJob is    *)
(* called and its promise (always truthy) is tested, so 200 is sent while  *)
(* payForJob is still at its first await                                   *)
PayGetContractor(r) ==
    /\ r.pc = "getContractor"
    /\ LET c == ContractId[r.jobId]
           contractorBalance == balance[ContractorId[c]]
       IN  IF NotEnough(price[r.jobId], contractorBalance)
           THEN Step(r, [r EXCEPT !.pc = "done", !.res = "not_enough"])
           ELSE Step(r, [r EXCEPT !.pc = "increment", !.res = "ok"])
    /\ UNCHANGED <<balance, paid, paymentDate, status>>

(* payForJob 68-70: transaction(), client.increment; a storage error goes  *)
(* to the catch block                                                      *)
PfjIncrement(r, fails) ==
    /\ r.pc = "increment"
    /\ LET p == ClientId[ContractId[r.jobId]]
           by == price[r.jobId]
       IN  IF fails
           THEN /\ Step(r, [r EXCEPT !.pc = "rollback"])
                /\ UNCHANGED balance
           ELSE /\ balance' = [balance EXCEPT ![p] = IncrementBy(balance[p], by)]
                /\ Step(r, [r EXCEPT !.pc = "decrement", !.dClient = IncrementBy(0, by)])
    /\ UNCHANGED <<paid, paymentDate, status>>

(* payForJob 71-75: contractor.decrement *)
PfjDecrement(r, fails) ==
    /\ r.pc = "decrement"
    /\ LET p == ContractorId[ContractId[r.jobId]]
           by == price[r.jobId]
       IN  IF fails
           THEN /\ Step(r, [r EXCEPT !.pc = "rollback"])
                /\ UNCHANGED balance
           ELSE /\ balance' = [balance EXCEPT ![p] = DecrementBy(balance[p], by)]
                /\ Step(r, [r EXCEPT !.pc = "save", !.dContractor = DecrementBy(0, by)])
    /\ UNCHANGED <<paid, paymentDate, status>>

(* payForJob 76-77: job.set({paid: true}); job.save() outside t; no        *)
(* paymentDate is written                                                  *)
PfjSave(r, fails) ==
    /\ r.pc = "save"
    /\ IF fails
       THEN /\ Step(r, [r EXCEPT !.pc = "rollback"])
            /\ UNCHANGED paid
       ELSE /\ paid' = [paid EXCEPT ![r.jobId] = TRUE]
            /\ Step(r, [r EXCEPT !.pc = "commit", !.setPaid = TRUE])
    /\ UNCHANGED <<balance, paymentDate, status>>

(* payForJob 78-79: t.commit(); return true *)
PfjCommit(r, fails) ==
    /\ r.pc = "commit"
    /\ IF fails
       THEN Step(r, [r EXCEPT !.pc = "rollback"])
       ELSE Step(r, [r EXCEPT !.pc = "done", !.helper = "true"])
    /\ UNCHANGED <<balance, paid, paymentDate, status>>

(* payForJob 80-82: t.rollback(); return false.  No statement ran in t, so *)
(* nothing is undone.                                                      *)
PfjRollback(r) ==
    /\ r.pc = "rollback"
    /\ Step(r, [r EXCEPT !.pc = "done", !.helper = "false"])
    /\ UNCHANGED <<balance, paid, paymentDate, status>>

(* ---------------- deposit ---------------- *)
\* app.js 127: !amountToDeposit
AmountNotProvided(body) == ~body.given \/ body.amount = 0

\* app.js 129-143: the client's non terminated contracts (required include)
ClientContracts(userId) ==
    {c \in Contracts : ClientId[c] = userId /\ status[c] # "terminated"}

\* app.js 130: where { id: userId, type: "client" } with the required include
FindClient(userId) ==
    userId \in Profiles /\ ProfileType[userId] = "client" /\ ClientContracts(userId) # {}

\* only the unpaid jobs are summed
ContractJobs_Unpaid(cs) == {j \in Jobs : ContractId[j] \in cs /\ ~paid[j]}

\* app.js 147: flatMap of the job prices of the contracts
ContractJobs(cs) == {j \in Jobs : ContractId[j] \in cs}

RECURSIVE Reduce(_)
\* app.js 148: reduce((a, b) => a + b) over a non-empty list
Reduce(js) ==
    LET j == CHOOSE x \in js : TRUE
    IN  IF js = {j} THEN price[j] ELSE price[j] + Reduce(js \ {j})

\* reduce of an empty array with no initial value throws a TypeError
ReduceThrows(js) == js = {}

\* the cap compared with >=
ExceedsCap_Inclusive(amountToDeposit, totalAmountJobs) == 4 * amountToDeposit >= totalAmountJobs

\* app.js 149: amountToDeposit > totalAmountJobs * 0.25, both sides times 4
ExceedsCap(amountToDeposit, totalAmountJobs) == 4 * amountToDeposit > totalAmountJobs

(* POST /balances/deposit/:userId, lines 121-152 *)
DepositFind(userId, body) ==
    /\ CanReceive
    /\ LET base == [Idle EXCEPT !.op = "deposit", !.actor = userId,
                                !.given = body.given, !.amount = body.amount]
           js == ContractJobs(ClientContracts(userId))
       IN  IF AmountNotProvided(body)
           THEN Accept([base EXCEPT !.pc = "done", !.res = "amount_not_provided"])
           ELSE IF ~FindClient(userId)
           THEN Accept([base EXCEPT !.pc = "done", !.res = "client_not_found"])
           ELSE IF ReduceThrows(js)
           THEN \* TypeError in the handler: no response is sent
                Accept([base EXCEPT !.pc = "crashed"])
           ELSE LET total == [base EXCEPT !.totalAmountJobs = Reduce(js)]
                IN  IF ExceedsCap(body.amount, total.totalAmountJobs)
                    THEN Accept([total EXCEPT !.pc = "done", !.res = "cap_exceeded"])
                    ELSE Accept([total EXCEPT !.pc = "depositIncrement"])
    /\ UNCHANGED <<balance, paid, paymentDate, status>>

(* lines 153-154: client.increment("balance", { by: amountToDeposit }) *)
DepositIncrement(r) ==
    /\ r.pc = "depositIncrement"
    /\ balance' = [balance EXCEPT ![r.actor] = IncrementBy(balance[r.actor], r.amount)]
    /\ Step(r, [r EXCEPT !.pc = "done", !.res = "ok", !.dClient = IncrementBy(0, r.amount)])
    /\ UNCHANGED <<paid, paymentDate, status>>

Next ==
    \/ \E a \in Profiles, j \in JobIds : PayFindJob(a, j)
    \/ \E r \in Received : PayGetContractor(r)
    \/ \E r \in Received, f \in BOOLEAN : PfjIncrement(r, f)
    \/ \E r \in Received, f \in BOOLEAN : PfjDecrement(r, f)
    \/ \E r \in Received, f \in BOOLEAN : PfjSave(r, f)
    \/ \E r \in Received, f \in BOOLEAN : PfjCommit(r, f)
    \/ \E r \in Received : PfjRollback(r)
    \/ \E u \in Profiles, b \in Bodies : DepositFind(u, b)
    \/ \E r \in Received : DepositIncrement(r)

Spec == Init /\ [][Next]_vars

(* ---------------- GET /contracts/:id ---------------- *)
\* the contract is found for the contractor only
Matches_ContractorOnly(c, profileId) == ContractorId[c] = profileId

\* app.js 20: [Op.or]: [{ ContractorId }, { ClientId }]
Matches(c, profileId) == ContractorId[c] = profileId \/ ClientId[c] = profileId

\* app.js 17-22: Contract.findOne({ where: { id, [Op.or]: ... } })
FindContract(id, profileId) == {c \in Contracts : c = id /\ Matches(c, profileId)}

(* GET /contracts/:id, lines 14-25 *)
GetContract(profileId, id) ==
    /\ CanReceive
    /\ LET base == [Idle EXCEPT !.op = "getContract", !.actor = profileId, !.id = id,
                                !.pc = "done"]
           found == FindContract(id, profileId)
       IN  IF found = {}
           THEN Accept([base EXCEPT !.res = "not_found"])
           ELSE Accept([base EXCEPT !.res = "ok", !.body = CHOOSE c \in found : TRUE])
    /\ UNCHANGED <<balance, paid, paymentDate, status>>

NextContracts == \E p \in Profiles, id \in ContractIds : GetContract(p, id)

\* the handler reads Contract rows only, and no handler of app.js writes a
\* Contract row: its requests are checked on their own
SpecContracts == Init /\ [][NextContracts]_vars

(* ---------------- properties ---------------- *)
PayRequests == {r \in Received : r.op = "pay" /\ r.jobId \in Jobs}

DepositRequests == {r \in Received : r.op = "deposit"}

ContractOf(r) == ContractId[r.jobId]

IsParty(r) == r.actor = ClientId[ContractOf(r)] \/ r.actor = ContractorId[ContractOf(r)]

NoWrite(r) == r.dClient = 0 /\ r.dContractor = 0 /\ ~r.setPaid

\* payForJob ran to its "return true"
Committed(r) == r.pc = "done" /\ r.res = "ok" /\ r.helper = "true"

\* C1: a successful PayJob has debited the client by job.price, credited the
\* contractor by job.price and left the job paid.
C1_PayDebitsClient ==
    \A r \in PayRequests :
        Committed(r) => /\ r.dClient = 0 - price[r.jobId]
                        /\ r.dContractor = price[r.jobId]
                        /\ paid[r.jobId]

\* C2: a successful PayJob leaves the sum of the two balances unchanged: what
\* it adds to one account it takes from the other.
C2_Conservation ==
    \A r \in PayRequests : Committed(r) => r.dClient + r.dContractor = 0

C2_Witness ==
    \E r \in PayRequests : Committed(r) /\ r.dClient # 0 /\ r.dContractor # 0

\* the pay requests on job j that have taken the price from the payer
Moved(j) == {r \in PayRequests : r.jobId = j /\ r.dContractor # 0}

Succeeded(j) == {r \in PayRequests : r.jobId = j /\ Committed(r)}

\* number of requests in S, equal requests counted as often as received
Count(S) == BagCardinality([r \in S |-> reqs[r]])

\* C3: for every job, among any number of concurrent PayJob attempts the
\* price is moved at most once and at most one attempt succeeds.
C3_NoDoublePay ==
    \A j \in Jobs : Count(Moved(j)) <= 1 /\ Count(Succeeded(j)) <= 1

\* C4: a PayJob that failed (an error response, or payForJob returned false
\* after a storage failure) has changed neither balance nor job.paid.
C4_AtomicFailure ==
    \A r \in PayRequests :
        (r.pc = "done" /\ (r.res # "ok" \/ r.helper = "false")) => NoWrite(r)

\* C5: the balance check passes iff the client's balance is >= job.price, and
\* otherwise answers "insufficient balance" with no balance change; the
\* contractor's balance does not matter.
C5_ClientBalanceDecides ==
    [][\A r \in Received :
          PayGetContractor(r) =>
              LET enough == balance[ClientId[ContractOf(r)]] >= price[r.jobId]
              IN  /\ balance' = balance
                  /\ Step(r, [r EXCEPT !.pc = IF enough THEN "increment" ELSE "done",
                                       !.res = IF enough THEN "ok" ELSE "not_enough"])]_vars

\* C6: PayJob on an existing job by a profile that is neither client nor
\* contractor of the job's contract is answered Unauthorized and writes
\* nothing, whatever the status, the paid flag and the balances are.
C6_Unauthorized ==
    \A r \in PayRequests :
        ~IsParty(r) => r.pc = "done" /\ r.res = "unauthorized" /\ NoWrite(r)

C6_Witness ==
    /\ \E r \in PayRequests : ~IsParty(r) /\ r.res = "unauthorized" /\ r.jobPaid
    /\ \E r \in PayRequests : ~IsParty(r) /\ r.res = "unauthorized"
                                /\ status[ContractOf(r)] # "in_progress"

\* the outstanding job total of a client with at least one job to be charged
HasTotal(u) == ContractJobs(ClientContracts(u)) # {}

Total(u) == Reduce(ContractJobs(ClientContracts(u)))

\* C7: for a client with outstanding total T > 0, a deposit of exactly 0.25*T
\* is accepted and credits exactly that amount, and every deposit of more
\* than 0.25*T is answered Conflict and leaves the balance unchanged.
C7_DepositCapBoundary ==
    \A r \in DepositRequests :
        (r.given /\ HasTotal(r.actor) /\ Total(r.actor) > 0) =>
            /\ 4 * r.amount = Total(r.actor) =>
                   \/ r.pc = "depositIncrement" /\ r.res = "none" /\ r.dClient = 0
                   \/ r.pc = "done" /\ r.res = "ok" /\ r.dClient = r.amount
            /\ 4 * r.amount > Total(r.actor) =>
                   r.pc = "done" /\ r.res = "cap_exceeded" /\ r.dClient = 0

C7_Witness ==
    /\ \E r \in DepositRequests :
          /\ HasTotal(r.actor) /\ 4 * r.amount = Total(r.actor)
          /\ r.pc = "done" /\ r.res = "ok" /\ r.dClient = r.amount
    /\ \E r \in DepositRequests :
          /\ HasTotal(r.actor) /\ 4 * r.amount > Total(r.actor)
          /\ r.res = "cap_exceeded"

\* C8: a deposit whose amount is missing, zero or negative is answered
\* InvalidArgument and leaves the balance unchanged; no deposit decreases a
\* balance.
C8_NonPositiveRejected ==
    \A r \in DepositRequests :
        /\ r.dClient >= 0
        /\ (~r.given \/ r.amount <= 0) =>
               /\ r.dClient = 0
               /\ (r.pc = "done" /\ HasTotal(r.actor)) => r.res = "amount_not_provided"

\* a PayJob whose read of the job came after the job was marked paid
Later(r) == r.jobPaid

PaidStaysPaid == \A j \in Jobs : paid[j] => paid'[j]

\* C9 as stated: a paid job stays paid, and every later PayJob on it is
\* answered Conflict(already paid) and leaves both balances unchanged.
C9_AlwaysAlreadyPaid ==
    /\ [][PaidStaysPaid]_vars
    /\ [](\A r \in PayRequests :
            Later(r) => r.pc = "done" /\ r.res = "already_paid" /\ NoWrite(r))

\* C9 amended: a paid job stays paid; every later PayJob on it leaves both
\* balances unchanged, and is answered Conflict(already paid) when it is made
\* by a party of the contract while the contract is in progress.
C9_PaidIsFinal ==
    /\ [][PaidStaysPaid]_vars
    /\ [](\A r \in PayRequests :
            Later(r) =>
                /\ r.pc = "done" /\ NoWrite(r)
                /\ (IsParty(r) /\ status[ContractOf(r)] = "in_progress")
                       => r.res = "already_paid")

C9_Witness ==
    \E r \in PayRequests, q \in PayRequests :
        /\ q.jobId = r.jobId /\ q.setPaid /\ Committed(q)
        /\ Later(r) /\ IsParty(r) /\ r.res = "already_paid"

\* C10: PayJob by a party on a job whose contract is new or terminated is
\* answered Conflict(contract not active) and changes neither balance nor
\* job.paid.
C10_ContractNotActive ==
    \A r \in PayRequests :
        (IsParty(r) /\ status[ContractOf(r)] \in {"new", "terminated"}) =>
            r.pc = "done" /\ r.res = "not_in_progress" /\ NoWrite(r)

C10_Witness ==
    /\ \E r \in PayRequests :
          IsParty(r) /\ status[ContractOf(r)] = "new" /\ r.res = "not_in_progress"
    /\ \E r \in PayRequests :
          IsParty(r) /\ status[ContractOf(r)] = "terminated" /\ r.res = "not_in_progress"

\* C11: PayJob naming a job id with no row ends with the NotFound result and
\* writes nothing; the request is not left without a result.
C11_MissingJobNotFound ==
    \A r \in Received :
        (r.op = "pay" /\ r.jobId \notin Jobs) =>
            r.pc = "done" /\ r.res = "not_found" /\ NoWrite(r)

\* all three writes of payForJob have been applied
AllWritten(r) == r.dClient # 0 /\ r.dContractor # 0 /\ r.setPaid

\* C12: in every state another request can read, each PayJob has applied
\* either none or all of client write, contractor write and job.paid = true.
C12_NoIntermediateState ==
    \A r \in PayRequests : NoWrite(r) \/ AllWritten(r)

\* the jobs the claims count as outstanding for profile u: jobs of the
\* contracts u is a party of whose status is not terminated
OutstandingJobs(u) ==
    {j \in Jobs : /\ status[ContractId[j]] # "terminated"
                  /\ u \in {ClientId[ContractId[j]], ContractorId[ContractId[j]]}}

RECURSIVE SumOfPrices(_)
SumOfPrices(js) ==
    IF js = {} THEN 0
    ELSE LET j == CHOOSE x \in js : TRUE IN price[j] + SumOfPrices(js \ {j})

OutstandingTotal(u) == SumOfPrices(OutstandingJobs(u))

\* C13: for an existing client whose outstanding total is 0, every deposit of
\* a positive amount is answered Conflict(deposit exceeds 25% cap) and the
\* balance is unchanged.
C13_ZeroTotalRejected ==
    \A r \in DepositRequests :
        (/\ ProfileType[r.actor] = "client"
         /\ r.given /\ r.amount > 0
         /\ OutstandingTotal(r.actor) = 0) =>
            r.pc = "done" /\ r.res = "cap_exceeded" /\ r.dClient = 0

ContractRequests == {r \in Received : r.op = "getContract"}

\* C14: GET /contracts/:id answers 200 with the contract iff the contract
\* exists and the requesting profile is its client or its contractor; in
\* every other case it answers 404 and returns nothing.
C14_ContractVisibility ==
    \A r \in ContractRequests :
        LET allowed == /\ r.id \in Contracts
                       /\ r.actor \in {ClientId[r.id], ContractorId[r.id]}
        IN  /\ r.pc = "done"
            /\ allowed => r.res = "ok" /\ r.body = r.id
            /\ ~allowed => r.res = "not_found" /\ r.body = 0

C14_Witness ==
    /\ \E r \in ContractRequests : r.res = "ok" /\ r.body = r.id
    /\ \E r \in ContractRequests :
          /\ r.id \in Contracts /\ r.actor \notin {ClientId[r.id], ContractorId[r.id]}
          /\ r.res = "not_found"

\* C15: every profile's balance is non-negative in every reachable state.
C15_NonNegativeBalances == \A p \in Profiles : balance[p] >= 0

\* C16: a PayJob answered with success has committed its transfer, and a
\* PayJob whose write phase failed and was rolled back is answered a failure.
C16_SuccessMeansCommitted ==
    \A r \in PayRequests :
        /\ r.res = "ok" => r.helper = "true"
        /\ r.helper = "false" => r.res \notin {"ok", "none"}

\* the error of the first violated precondition among job exists, actor is a
\* party, contract in progress, job unpaid; "" when all four hold
FirstViolated(r) ==
    IF r.jobId \notin Jobs THEN "not_found"
    ELSE IF ~IsParty(r) THEN "unauthorized"
    ELSE IF status[ContractOf(r)] # "in_progress" THEN "not_in_progress"
    ELSE IF r.jobPaid THEN "already_paid"
    ELSE ""

\* C17: PayJob tests job exists, actor is a party, contract in_progress, job
\* unpaid, balance sufficient in that order: the answer is the error of the
\* first violated one, and nothing is written unless all have passed.
C17_PreconditionOrder ==
    \A r \in Received :
        r.op = "pay" =>
            /\ FirstViolated(r) # "" => r.pc = "done" /\ r.res = FirstViolated(r)
            /\ FirstViolated(r) = "" => r.res \in {"none", "not_enough", "ok"}
            /\ r.res # "ok" => NoWrite(r)

\* C18: a paid job has a paymentDate.
C18_PaidHasPaymentDate == \A j \in Jobs : paid[j] => paymentDate[j]

\* the deposit request has reached the comparison of app.js 149
Compared(r) == r.pc = "depositIncrement" \/ r.res \in {"cap_exceeded", "ok"}

RECURSIVE SumBalances(_, _)
SumBalances(b, ps) ==
    IF ps = {} THEN 0
    ELSE LET p == CHOOSE x \in ps : TRUE IN b[p] + SumBalances(b, ps \ {p})

RECURSIVE SumAmounts(_, _)
\* the amounts of the requests rs of bag b, each counted as often as received
SumAmounts(b, rs) ==
    IF rs = {} THEN 0
    ELSE LET r == CHOOSE x \in rs : TRUE
         IN  r.amount * b[r] + SumAmounts(b, rs \ {r})

\* sum of the amounts of the deposits of bag b that succeeded
Deposited(b) ==
    SumAmounts(b, {r \in BagToSet(b) : r.op = "deposit" /\ r.res = "ok"})

\* C20: the sum of all balances is the initial sum plus the amounts of the
\* deposits that succeeded: every step changes the sum by exactly the amount
\* of the deposit that succeeds in it, and by nothing otherwise.
C20_TotalFollowsDeposits ==
    [][SumBalances(balance', Profiles) - SumBalances(balance, Profiles)
          = Deposited(reqs') - Deposited(reqs)]_vars
====
